---- MODULE Spec2Model ----
(***************************************************************************)
(* Model of API_LATENCY_MONITOR.py: the interactive run (main), the        *)
(* sampler (measure_multiple over a shared ThreadPoolExecutor), the probe  *)
(* (measure_once) and the aggregator (aggregate_results).                  *)
(*                                                                         *)
(* Conventions.                                                            *)
(*  - A Python optional is a sequence of length 0 or 1: None is <<>> and a *)
(*    present value v is <<v>>.                                            *)
(*  - A str is a sequence of tokens.  The tokens are " " (one whitespace   *)
(*    character), "," , "x" (one character that is none of the others),    *)
(*    "http", "s" and "://", so that "http://" is <<"http", "://">> and    *)
(*    "https://" is <<"http", "s", "://">>.                                *)
(*  - Milliseconds with two decimals are integers counting hundredths of a *)
(*    millisecond (10000 is 100.0 ms); elapsed time is in microseconds.    *)
(*  - Arithmetic that Python does on binary floats is done here on exact   *)
(*    rationals.  round(x, 2) of a float lying (in exact arithmetic) on a  *)
(*    decimal tie goes up or down with the float's binary expansion; the   *)
(*    direction is an input named up.                                      *)
(***************************************************************************)
EXTENDS Integers, Sequences, FiniteSets

\* ------------------------------------------------------------------ bounds
MaxSamples == 2
MaxConcurrency == 2
MaxBatch == 3
MaxInputLen == 3
\* seconds of the wall clock that pass during a run
MaxClock == 1

\* ---------------------------------------------------------------- optionals
None == <<>>
Some(v) == <<v>>
Get(o) == o[1]

\* --------------------------------------------------------------------- str
WS == " "
COMMA == <<",">>
HTTP == <<"http", "://">>
HTTPS == <<"http", "s", "://">>
Tokens == {" ", ",", "x", "http", "s", "://"}

\* s.startswith(p)
startswith(s, p) ==
    /\ Len(s) >= Len(p)
    /\ SubSeq(s, 1, Len(p)) = p

RECURSIVE lstrip(_)
lstrip(s) ==
    IF s # <<>> /\ Head(s) = WS THEN lstrip(Tail(s)) ELSE s

RECURSIVE rstrip(_)
rstrip(s) ==
    IF s # <<>> /\ s[Len(s)] = WS THEN rstrip(SubSeq(s, 1, Len(s) - 1)) ELSE s

\* s.strip()
strip(s) == rstrip(lstrip(s))

\* s.split(","): the pieces between the separators, empty pieces included
RECURSIVE split(_, _)
split(s, piece) ==
    IF s = <<>> THEN <<piece>>
    ELSE IF <<Head(s)>> = COMMA THEN <<piece>> \o split(Tail(s), <<>>)
    ELSE split(Tail(s), Append(piece, Head(s)))

\* [u.strip() for u in pieces if u.strip()]
RECURSIVE strip_nonempty(_)
strip_nonempty(pieces) ==
    IF pieces = <<>> THEN <<>>
    ELSE IF strip(Head(pieces)) # <<>>
         THEN <<strip(Head(pieces))>> \o strip_nonempty(Tail(pieces))
         ELSE strip_nonempty(Tail(pieces))

\* line 78: urls = [u.strip() for u in urls_input.split(",") if u.strip()]
parse_urls(urls_input) == strip_nonempty(split(urls_input, <<>>))

\* only "http://" looked for
scheme_qualify_http_only(u) ==
    IF ~startswith(u, HTTP) THEN HTTPS \o u ELSE u

\* lines 107-108: the scheme prefix
scheme_qualify(u) ==
    IF ~startswith(u, HTTP) /\ ~startswith(u, HTTPS) THEN HTTPS \o u ELSE u

\* ----------------------------------------------------------------- numbers
\* The integer nearest to num/den (num >= 0, den > 0); a tie goes as up says.
round_half(num, den, up) ==
    LET q == num \div den
        r == num % den
    IN  IF 2 * r > den \/ (2 * r = den /\ up) THEN q + 1 ELSE q

RECURSIVE sum(_)
sum(xs) == IF xs = <<>> THEN 0 ELSE Head(xs) + sum(Tail(xs))

RECURSIVE sum_sq(_)
sum_sq(xs) == IF xs = <<>> THEN 0 ELSE Head(xs) * Head(xs) + sum_sq(Tail(xs))

\* the first member taken for the smallest
min_first(xs) == Head(xs)

\* min(xs), xs non-empty
RECURSIVE min(_)
min(xs) ==
    IF Len(xs) = 1 THEN Head(xs)
    ELSE LET m == min(Tail(xs)) IN IF Head(xs) <= m THEN Head(xs) ELSE m

\* the last member taken for the largest
max_last(xs) == xs[Len(xs)]

\* max(xs), xs non-empty
RECURSIVE max(_)
max(xs) ==
    IF Len(xs) = 1 THEN Head(xs)
    ELSE LET m == max(Tail(xs)) IN IF Head(xs) >= m THEN Head(xs) ELSE m

\* The largest r in lo..hi with r * r * den <= num (lo satisfies it).
isqrt(lo, hi, num, den) ==
    LET root[a \in lo..hi, b \in lo..hi] ==
            IF a >= b THEN a
            ELSE LET mid == (a + b + 1) \div 2
                 IN  IF mid * mid * den <= num THEN root[mid, b] ELSE root[a, mid - 1]
    IN  root[lo, hi]

\* round(mean(xs), 2): the mean is sum(xs)/len(xs)
mean_round(xs, up) == round_half(sum(xs), Len(xs), up)

\* round(pstdev(xs), 2): the population variance, with denominator n
stdev_round_population(xs, up) ==
    LET n == Len(xs)
        ds == [k \in 1..n |-> xs[k] - min(xs)]
        num == n * sum_sq(ds) - sum(ds) * sum(ds)
        den == n * n
        r == isqrt(0, max(xs) - min(xs), num, den)
        half == (2 * r + 1) * (2 * r + 1) * den
    IN  IF 4 * num > half \/ (4 * num = half /\ up) THEN r + 1 ELSE r

\* round(stdev(xs), 2), len(xs) >= 2: the sample variance is
\* (n * sum(x^2) - sum(x)^2) / (n * (n - 1)), and its square root is rounded.
\* The sums are taken of the distances from min(xs), which gives the same
\* variance and keeps the products small.
stdev_round(xs, up) ==
    LET n == Len(xs)
        ds == [k \in 1..n |-> xs[k] - min(xs)]
        num == n * sum_sq(ds) - sum(ds) * sum(ds)
        den == n * (n - 1)
        r == isqrt(0, max(xs) - min(xs), num, den)
        half == (2 * r + 1) * (2 * r + 1) * den
    IN  IF 4 * num > half \/ (4 * num = half /\ up) THEN r + 1 ELSE r

\* ------------------------------------------------------------ measure_once
\* What session.get does for one request: it returns a response (status code,
\* content of some length or no content) after elapsed_us microseconds, or it
\* raises an exception whose str() is message.
Response(status, elapsed_us, content) ==
    [raises |-> FALSE, status |-> status, elapsed_us |-> elapsed_us,
     content |-> content, message |-> ""]
Raises(message) ==
    [raises |-> TRUE, status |-> 0, elapsed_us |-> 0,
     content |-> None, message |-> message]

\* How a call ends: it returns a value, or an exception leaves it.
Returned(v) == [raised |-> FALSE, value |-> v]
Raised(message) == [raised |-> TRUE, value |-> message]

\* measure_once without its try/except: the exception leaves the call
measure_once_uncaught(ev, up) ==
    IF ~ev.raises
    THEN Returned([status |-> Some(ev.status),
                   latency_ms |-> Some(round_half(ev.elapsed_us, 10, up)),
                   size |-> Some(IF ev.content # None THEN Get(ev.content) ELSE 0),
                   error |-> None])
    ELSE Raised(ev.message)

\* measure_once reporting the time spent in a request that raised
measure_once_timed_failure(ev, up) ==
    IF ~ev.raises
    THEN Returned([status |-> Some(ev.status),
                   latency_ms |-> Some(round_half(ev.elapsed_us, 10, up)),
                   size |-> Some(IF ev.content # None THEN Get(ev.content) ELSE 0),
                   error |-> None])
    ELSE Returned([status |-> None,
                   latency_ms |-> Some(round_half(ev.elapsed_us, 10, up)),
                   size |-> None,
                   error |-> Some(ev.message)])

\* lines 33-42: return (status, latency_ms, size, error)
measure_once(ev, up) ==
    IF ~ev.raises
    THEN Returned([status |-> Some(ev.status),
                   latency_ms |-> Some(round_half(ev.elapsed_us, 10, up)),
                   size |-> Some(IF ev.content # None THEN Get(ev.content) ELSE 0),
                   error |-> None])
    ELSE Returned([status |-> None, latency_ms |-> None, size |-> None,
                   error |-> Some(ev.message)])

\* ------------------------------------------------------- aggregate_results
\* [f(r) for r in results if f(r) is not None], f a field of the outcome
RECURSIVE present(_, _)
present(results, f) ==
    IF results = <<>> THEN <<>>
    ELSE IF Head(results)[f] # None
         THEN <<Get(Head(results)[f])>> \o present(Tail(results), f)
         ELSE present(Tail(results), f)

\* the upper limit taken inclusive
is_success_to_400(s) == s >= 0 /\ 200 <= s /\ s <= 400

\* line 57: str(s).isdigit() and 200 <= int(s) < 400
is_success(s) == s >= 0 /\ 200 <= s /\ s < 400

RECURSIVE count_success(_)
count_success(statuses) ==
    IF statuses = <<>> THEN 0
    ELSE (IF is_success(Head(statuses)) THEN 1 ELSE 0) + count_success(Tail(statuses))

\* every outcome that is not a success counted as a failure
aggregate_results_non_success_fails(results, fp) ==
    LET latencies == present(results, "latency_ms")
        statuses == present(results, "status")
    IN  [count |-> Len(results),
         success_count |-> count_success(statuses),
         failure_count |-> Len(results) - count_success(statuses),
         min_ms |-> IF latencies # <<>> THEN Some(min(latencies)) ELSE None,
         avg_ms |-> IF latencies # <<>> THEN Some(mean_round(latencies, fp.avg)) ELSE None,
         max_ms |-> IF latencies # <<>> THEN Some(max(latencies)) ELSE None,
         stdev_ms |-> IF Len(latencies) > 1 THEN stdev_round(latencies, fp.sd) ELSE 0]

\* lines 51-63; fp gives the direction of the two roundings that can tie.
\* A latency has two decimals already (line 38), so round(min(latencies), 2)
\* and round(max(latencies), 2) are min and max themselves.
aggregate_results(results, fp) ==
    LET latencies == present(results, "latency_ms")
        statuses == present(results, "status")
        errors == present(results, "error")
    IN  [count |-> Len(results),
         success_count |-> count_success(statuses),
         failure_count |-> Len(errors),
         min_ms |-> IF latencies # <<>> THEN Some(min(latencies)) ELSE None,
         avg_ms |-> IF latencies # <<>> THEN Some(mean_round(latencies, fp.avg)) ELSE None,
         max_ms |-> IF latencies # <<>> THEN Some(max(latencies)) ELSE None,
         stdev_ms |-> IF Len(latencies) > 1 THEN stdev_round(latencies, fp.sd) ELSE 0]

FloatTies == [avg : BOOLEAN, sd : BOOLEAN]

\* ------------------------------------------------------------------- state
VARIABLES
    stdin,          \* the line typed at the URLs prompt (line 74), a str
    samples,        \* line 81
    concurrency,    \* line 91
    pc,             \* where main is
    urls,           \* line 78
    idx,            \* how many targets the for loop of line 106 has taken
    url,            \* the loop variable, scheme-qualified (lines 106-108)
    futures,        \* line 45: one [state, ev, result] per submitted probe; ev is
                    \* what session.get did in the probe, once it has
    finished,       \* as_completed: futures found finished on entry, not yet yielded
    pending,        \* as_completed: futures not finished on entry, not yet yielded
    waiter,         \* as_completed: futures resolved since entry, in completion order
    results,        \* line 46
    agg,            \* line 121, None before the first aggregation
    detailed_rows,  \* line 99
    summary_rows,   \* line 100
    console,        \* what print has written
    session,        \* "none", "open", "closed" (line 102)
    executor,       \* [state, max_workers] (line 105)
    acquired,       \* how many sessions and pools the run has constructed
    files,          \* what write_csv has written: an optional list of rows per file
    clock,          \* what datetime.utcnow() gives, in whole seconds
    timestamp,      \* line 98
    requests,       \* how many times session.get has been called (line 36)
    resolved,       \* the probes of the batch in the order they resolved, each
                    \* with whether as_completed had started by then
    yielded         \* the probes of the batch in the order line 47 took them

vars == <<stdin, samples, concurrency, pc, urls, idx, url, futures, finished,
          pending, waiter, results, agg, detailed_rows, summary_rows, console, session,
          executor, acquired, files, clock, timestamp, requests, resolved, yielded>>

\* The lines typed at the URLs prompt in the runs explored.
StdinLines ==
    { <<>>,
      <<" ", " ">>,
      <<" ", ",", " ">>,
      <<" ", "http", "://", "x", " ">>,
      <<"x", ",", " ", ",", "http", "s", "://", "x", "x">> }

\* What session.get does in the runs explored.
Transport ==
    { Response(200, 100000, Some(512)),
      Response(404, 120004, None),
      Raises("timeout") }

Running == {k \in 1..Len(futures) : futures[k].state = "running"}

Init ==
    /\ stdin \in StdinLines
    /\ samples \in 1..MaxSamples
    /\ concurrency \in 1..MaxConcurrency
    /\ pc = "input"
    /\ urls = <<>>
    /\ idx = 0
    /\ url = <<>>
    /\ futures = <<>>
    /\ finished = {}
    /\ pending = {}
    /\ waiter = <<>>
    /\ results = <<>>
    /\ agg = None
    /\ detailed_rows = <<>>
    /\ summary_rows = <<>>
    /\ console = <<>>
    /\ session = "none"
    /\ executor = [state |-> "none", max_workers |-> 0]
    /\ acquired = [sessions |-> 0, pools |-> 0]
    /\ files = [detailed |-> None, summary |-> None]
    /\ clock = 0
    /\ timestamp = None
    /\ requests = 0
    /\ resolved = <<>>
    /\ yielded = <<>>

\* ------------------------------------------------------------------- main
\* lines 73-77: nothing typed
NoUrls ==
    /\ pc = "input"
    /\ strip(stdin) = <<>>
    /\ console' = console \o <<[line |-> "banner", url |-> <<>>],
                               [line |-> "no_urls", url |-> <<>>]>>
    /\ pc' = "exited"
    /\ UNCHANGED <<stdin, samples, concurrency, urls, idx, url, futures, finished, pending,
                   waiter, results, agg, detailed_rows, summary_rows, session,
                   executor, acquired, files,
                   clock, timestamp, requests, resolved, yielded>>

\* lines 73-100
ReadUrls ==
    /\ pc = "input"
    /\ strip(stdin) # <<>>
    /\ urls' = parse_urls(strip(stdin))
    /\ console' = Append(console, [line |-> "banner", url |-> <<>>])
    /\ detailed_rows' = <<>>
    /\ timestamp' = Some(clock)
    /\ detailed_rows' = <<>>
    /\ summary_rows' = <<>>
    /\ pc' = "session"
    /\ UNCHANGED <<stdin, samples, concurrency, idx, url, futures, finished, pending,
                   waiter, results, agg, session, executor, acquired, files,
                   clock, requests, resolved, yielded>>

\* lines 102-104
OpenSession ==
    /\ pc = "session"
    /\ session' = "open"
    /\ acquired' = [acquired EXCEPT !.sessions = @ + 1]
    /\ pc' = "pool"
    /\ UNCHANGED <<stdin, samples, concurrency, urls, idx, url, futures, finished, pending,
                   waiter, results, agg, detailed_rows, summary_rows, console,
                   executor, files,
                   clock, timestamp, requests, resolved, yielded>>

\* line 105
OpenPool ==
    /\ pc = "pool"
    /\ executor' = [state |-> "open", max_workers |-> concurrency]
    /\ acquired' = [acquired EXCEPT !.pools = @ + 1]
    /\ pc' = "loop"
    /\ UNCHANGED <<stdin, samples, concurrency, urls, idx, url, futures, finished, pending,
                   waiter, results, agg, detailed_rows, summary_rows, console,
                   session, files,
                   clock, timestamp, requests, resolved, yielded>>

\* a loop that takes the targets last first
BeginTarget_last_first ==
    /\ pc = "loop"
    /\ idx < Len(urls)
    /\ idx' = idx + 1
    /\ url' = scheme_qualify(urls[Len(urls) - idx])
    /\ console' = Append(console, [line |-> "checking", url |-> url'])
    /\ results' = <<>>
    /\ pc' = IF samples > 0 THEN "submit" ELSE "as_completed"
    /\ UNCHANGED <<stdin, samples, concurrency, urls, futures, finished, pending, waiter, agg,
                   detailed_rows, summary_rows, session, executor, acquired, files,
                   clock, timestamp, requests, resolved, yielded>>

\* lines 106-109 and the call of line 110
BeginTarget ==
    /\ pc = "loop"
    /\ idx < Len(urls)
    /\ idx' = idx + 1
    /\ url' = scheme_qualify(urls[idx + 1])
    /\ console' = Append(console, [line |-> "checking", url |-> url'])
    /\ results' = <<>>
    /\ pc' = IF samples > 0 THEN "submit" ELSE "as_completed"
    /\ UNCHANGED <<stdin, samples, concurrency, urls, futures, finished, pending, waiter, agg,
                   detailed_rows, summary_rows, session, executor, acquired, files,
                   clock, timestamp, requests, resolved, yielded>>

\* the tables written inside the with blocks, before the pool and the session
\* are released
EndLoop_writing_first ==
    /\ pc = "loop"
    /\ idx >= Len(urls)
    /\ pc' = "write_detailed"
    /\ UNCHANGED <<stdin, samples, concurrency, urls, idx, url, futures, finished, pending,
                   waiter, results, agg, detailed_rows, summary_rows, console,
                   session, executor, acquired, files,
                   clock, timestamp, requests, resolved, yielded>>

\* line 106: the list is exhausted
EndLoop ==
    /\ pc = "loop"
    /\ idx >= Len(urls)
    /\ pc' = "shutdown"
    /\ UNCHANGED <<stdin, samples, concurrency, urls, idx, url, futures, finished, pending,
                   waiter, results, agg, detailed_rows, summary_rows, console,
                   session, executor, acquired, files,
                   clock, timestamp, requests, resolved, yielded>>

\* -------------------------------------------------------- measure_multiple
\* line 45: executor.submit, once per sample; the work item holds the url the
\* call was given
Submit ==
    /\ pc = "submit"
    /\ Len(futures) < samples
    /\ futures' = Append(futures, [state |-> "pending", url |-> url, ev |-> None,
                                   result |-> None])
    /\ pc' = IF Len(futures') = samples THEN "as_completed" ELSE "submit"
    /\ UNCHANGED <<stdin, samples, concurrency, urls, idx, url, finished, pending,
                   waiter, results, agg, detailed_rows, summary_rows, console,
                   session, executor, acquired, files,
                   clock, timestamp, requests, resolved, yielded>>

\* a pool that keeps one of its workers idle
worker_free_but_one == Cardinality(Running) + 1 < executor.max_workers

\* a pool that starts a thread for every work item
worker_free_unbounded == TRUE

\* ThreadPoolExecutor(max_workers=concurrency): a worker thread is free
worker_free == Cardinality(Running) < executor.max_workers

\* A worker thread takes the oldest queued work item and calls measure_once.
Start(k) ==
    /\ executor.state = "open"
    /\ futures[k].state = "pending"
    /\ \A j \in 1..(k - 1) : futures[j].state # "pending"
    /\ worker_free
    /\ futures' = [futures EXCEPT ![k].state = "running"]
    /\ UNCHANGED <<stdin, samples, concurrency, pc, urls, idx, url, finished,
                   pending, waiter, results, agg, detailed_rows, summary_rows,
                   console, session, executor, acquired, files,
                   clock, timestamp, requests, resolved, yielded>>

\* a measure_once that tries once more when the request failed
session_get_calls_retrying(ev) == IF ev.raises THEN 2 ELSE 1

\* lines 35-41: how many times a call of measure_once calls session.get,
\* whatever the request does: line 36 is reached once and nothing loops back
session_get_calls(ev) == 1

\* The call of measure_once ends (lines 33-42) and the worker resolves the
\* future with what it returned or raised; a waiter installed by as_completed
\* is told.
Resolve(k) ==
    /\ futures[k].state = "running"
    /\ \E ev \in Transport, up \in BOOLEAN :
          /\ futures' = [futures EXCEPT
                            ![k] = [state |-> "finished", url |-> futures[k].url,
                                    ev |-> Some(ev),
                                    result |-> Some(measure_once(ev, up))]]
          /\ requests' = requests + session_get_calls(ev)
    /\ waiter' = IF pc = "collect" THEN Append(waiter, k) ELSE waiter
    /\ resolved' = Append(resolved, [probe |-> k, collecting |-> pc = "collect"])
    /\ UNCHANGED <<stdin, samples, concurrency, pc, urls, idx, url, finished,
                   pending, results, agg, detailed_rows, summary_rows, console,
                   session, executor, acquired, files,
                   clock, timestamp, yielded>>

\* line 47: as_completed starts: it notes the futures already finished and
\* installs its waiter on the others
EnterAsCompleted ==
    /\ pc = "as_completed"
    /\ finished' = {k \in 1..Len(futures) : futures[k].state = "finished"}
    /\ pending' = {k \in 1..Len(futures) : futures[k].state # "finished"}
    /\ waiter' = <<>>
    /\ pc' = "collect"
    /\ UNCHANGED <<stdin, samples, concurrency, urls, idx, url, futures, results,
                   agg, detailed_rows, summary_rows, console, session, executor,
                   acquired, files,
                   clock, timestamp, requests, resolved, yielded>>

\* a collecting loop that stops at the first failed probe
append_result_until_failure(k) ==
    IF Get(futures[k].result).raised
    THEN /\ pc' = "crashed"
         /\ results' = results
    ELSE /\ pc' = IF Get(futures[k].result).value.error # None THEN "record" ELSE pc
         /\ results' = Append(results, Get(futures[k].result).value)

\* line 48: results.append(fut.result()); fut.result() raises what the call
\* raised, and nothing in measure_multiple or main catches it
append_result(k) ==
    IF Get(futures[k].result).raised
    THEN /\ pc' = "crashed"
         /\ results' = results
    ELSE /\ pc' = pc
         /\ results' = Append(results, Get(futures[k].result).value)

\* lines 47-48: as_completed yields a future that was finished on entry (it
\* holds them in a set, so in any order)
YieldFinished(k) ==
    /\ pc = "collect"
    /\ k \in finished
    /\ finished' = finished \ {k}
    /\ append_result(k)
    /\ yielded' = Append(yielded, k)
    /\ UNCHANGED <<stdin, samples, concurrency, urls, idx, url, futures, pending,
                   waiter, agg, detailed_rows, summary_rows, console, session,
                   executor, acquired, files,
                   clock, timestamp, requests, resolved>>

\* an as_completed that yields the futures resolved since newest first
YieldCompleted_newest_first ==
    /\ pc = "collect"
    /\ finished = {}
    /\ waiter # <<>>
    /\ waiter' = SubSeq(waiter, 1, Len(waiter) - 1)
    /\ pending' = pending \ {waiter[Len(waiter)]}
    /\ append_result(waiter[Len(waiter)])
    /\ yielded' = Append(yielded, waiter[Len(waiter)])
    /\ UNCHANGED <<stdin, samples, concurrency, urls, idx, url, futures, finished,
                   agg, detailed_rows, summary_rows, console, session, executor,
                   acquired, files,
                   clock, timestamp, requests, resolved>>

\* lines 47-48: as_completed yields the futures resolved since, oldest first
YieldCompleted ==
    /\ pc = "collect"
    /\ finished = {}
    /\ waiter # <<>>
    /\ waiter' = Tail(waiter)
    /\ pending' = pending \ {Head(waiter)}
    /\ append_result(Head(waiter))
    /\ yielded' = Append(yielded, Head(waiter))
    /\ UNCHANGED <<stdin, samples, concurrency, urls, idx, url, futures, finished,
                   agg, detailed_rows, summary_rows, console, session, executor,
                   acquired, files,
                   clock, timestamp, requests, resolved>>

\* a collecting loop that stops waiting once it has an outcome
exhausted_at_first_outcome == finished = {} /\ (pending = {} \/ results # <<>>)

\* as_completed is exhausted: nothing is left to yield
exhausted == finished = {} /\ pending = {}

\* line 49: the list of futures is dropped with the frame; a work item that
\* has not finished stays with the pool
Return ==
    /\ pc = "collect"
    /\ exhausted
    /\ futures' = SelectSeq(futures, LAMBDA f : f.state # "finished")
    /\ resolved' = <<>>
    /\ yielded' = <<>>
    /\ pc' = "record"
    /\ UNCHANGED <<stdin, samples, concurrency, urls, idx, url, finished, pending,
                   waiter, results, agg, detailed_rows, summary_rows, console,
                   session, executor, acquired, files,
                   clock, timestamp, requests>>

\* ------------------------------------------------------- main, continued
\* x or "" for an optional int: None and 0 give the empty cell
or_blank_int(x) == IF x = None \/ Get(x) = 0 THEN None ELSE x

\* x or "" for an optional str: None and "" give the empty cell
or_blank_str(x) == IF x = None \/ Get(x) = "" THEN None ELSE x

\* a row stamped with the time it is built at
detailed_row_stamped_now(u, k, r) ==
    [url |-> u,
     sample_index |-> k,
     status |-> or_blank_int(r.status),
     latency_ms |-> or_blank_int(r.latency_ms),
     response_bytes |-> or_blank_int(r.size),
     error |-> or_blank_str(r.error),
     checked_at |-> clock]

\* lines 112-120
detailed_row(u, k, r) ==
    [url |-> u,
     sample_index |-> k,
     status |-> or_blank_int(r.status),
     latency_ms |-> or_blank_int(r.latency_ms),
     response_bytes |-> or_blank_int(r.size),
     error |-> or_blank_str(r.error),
     checked_at |-> Get(timestamp)]

\* lines 122-132
summary_row(u, a) ==
    [url |-> u,
     samples |-> a.count,
     success_count |-> a.success_count,
     failure_count |-> a.failure_count,
     min_ms |-> a.min_ms,
     avg_ms |-> a.avg_ms,
     max_ms |-> a.max_ms,
     stdev_ms |-> a.stdev_ms,
     checked_at |-> Get(timestamp)]

\* lines 133-136
result_line(u, a) ==
    IF a.avg_ms # None
    THEN [line |-> "result", url |-> u]
    ELSE [line |-> "no_successful_requests", url |-> u]

\* lines 111-120
RecordRows ==
    /\ pc = "record"
    /\ detailed_rows' = detailed_rows \o
          [k \in 1..Len(results) |-> detailed_row(url, k, results[k])]
    /\ pc' = "aggregate"
    /\ UNCHANGED <<stdin, samples, concurrency, urls, idx, url, futures, finished, pending,
                   waiter, results, agg, summary_rows, console, session, executor,
                   acquired, files,
                   clock, timestamp, requests, resolved, yielded>>

\* a loop that rewrites the summary table after every target
Aggregate_writing_summary ==
    /\ pc = "aggregate"
    /\ \E fp \in FloatTies : agg' = Some(aggregate_results(results, fp))
    /\ summary_rows' = Append(summary_rows, summary_row(url, Get(agg')))
    /\ console' = Append(console, result_line(url, Get(agg')))
    /\ files' = [files EXCEPT !.summary = Some(summary_rows')]
    /\ pc' = "loop"
    /\ UNCHANGED <<stdin, samples, concurrency, urls, idx, url, futures, finished, pending,
                   waiter, results, detailed_rows, session, executor, acquired,
                   clock, timestamp, requests, resolved, yielded>>

\* lines 121-136
Aggregate ==
    /\ pc = "aggregate"
    /\ \E fp \in FloatTies : agg' = Some(aggregate_results(results, fp))
    /\ summary_rows' = Append(summary_rows, summary_row(url, Get(agg')))
    /\ console' = Append(console, result_line(url, Get(agg')))
    /\ pc' = "loop"
    /\ UNCHANGED <<stdin, samples, concurrency, urls, idx, url, futures, finished, pending,
                   waiter, results, detailed_rows, session, executor, acquired,
                   files,
                   clock, timestamp, requests, resolved, yielded>>

\* line 105: the with block of the executor ends
ShutdownPool ==
    /\ pc = "shutdown"
    /\ executor' = [executor EXCEPT !.state = "shutdown"]
    /\ pc' = "close"
    /\ UNCHANGED <<stdin, samples, concurrency, urls, idx, url, futures, finished, pending,
                   waiter, results, agg, detailed_rows, summary_rows, console,
                   session, acquired, files,
                   clock, timestamp, requests, resolved, yielded>>

\* line 102: the with block of the session ends
CloseSession ==
    /\ pc = "close"
    /\ session' = "closed"
    /\ pc' = "write_detailed"
    /\ UNCHANGED <<stdin, samples, concurrency, urls, idx, url, futures, finished, pending,
                   waiter, results, agg, detailed_rows, summary_rows, console,
                   executor, acquired, files,
                   clock, timestamp, requests, resolved, yielded>>

\* line 138
WriteDetailed ==
    /\ pc = "write_detailed"
    /\ files' = [files EXCEPT !.detailed = Some(detailed_rows)]
    /\ pc' = "write_summary"
    /\ UNCHANGED <<stdin, samples, concurrency, urls, idx, url, futures, finished, pending,
                   waiter, results, agg, detailed_rows, summary_rows, console,
                   session, executor, acquired,
                   clock, timestamp, requests, resolved, yielded>>

\* lines 139-140
WriteSummary ==
    /\ pc = "write_summary"
    /\ files' = [files EXCEPT !.summary = Some(summary_rows)]
    /\ console' = Append(console, [line |-> "saved", url |-> <<>>])
    /\ pc' = "done"
    /\ UNCHANGED <<stdin, samples, concurrency, urls, idx, url, futures, finished, pending,
                   waiter, results, agg, detailed_rows, summary_rows, session,
                   executor, acquired,
                   clock, timestamp, requests, resolved, yielded>>

Next ==
    \/ NoUrls
    \/ ReadUrls
    \/ OpenSession
    \/ OpenPool
    \/ BeginTarget
    \/ EndLoop
    \/ Submit
    \/ \E k \in 1..Len(futures) : Start(k)
    \/ \E k \in 1..Len(futures) : Resolve(k)
    \/ EnterAsCompleted
    \/ \E k \in 1..Len(futures) : YieldFinished(k)
    \/ YieldCompleted
    \/ Return
    \/ RecordRows
    \/ Aggregate
    \/ ShutdownPool
    \/ CloseSession
    \/ WriteDetailed
    \/ WriteSummary

Spec == Init /\ [][Next]_vars

\* ---------------------------------------------------- the run, scheduled
\* The steps of the main thread
MainStep ==
    \/ NoUrls
    \/ ReadUrls
    \/ OpenSession
    \/ OpenPool
    \/ BeginTarget
    \/ EndLoop
    \/ Submit
    \/ EnterAsCompleted
    \/ \E k \in 1..Len(futures) : YieldFinished(k)
    \/ YieldCompleted
    \/ Return
    \/ RecordRows
    \/ Aggregate
    \/ ShutdownPool
    \/ CloseSession
    \/ WriteDetailed
    \/ WriteSummary

\* The main thread keeps running, a free worker takes the oldest queued work
\* item, and every request that was started ends (line 36 has a timeout).
Fairness ==
    /\ WF_vars(MainStep)
    /\ WF_vars(\E k \in 1..Len(futures) : Start(k))
    /\ \A k \in 1..MaxSamples : WF_vars(k \in 1..Len(futures) /\ Resolve(k))

SpecLive == Init /\ [][Next]_vars /\ Fairness

\* ------------------------------------------------ the run while time passes
\* A second of the wall clock passes while the program runs.  Tick changes
\* the clock alone and no other action reads it but ReadUrls (line 98), so
\* the runs of Spec, where the clock stands still, are the runs of SpecClock
\* with the clock left out.
Tick ==
    /\ pc \notin {"done", "exited", "crashed"}
    /\ clock < MaxClock
    /\ clock' = clock + 1
    /\ UNCHANGED <<stdin, samples, concurrency, pc, urls, idx, url, futures, finished,
                   pending, waiter, results, agg, detailed_rows, summary_rows,
                   console, session, executor, acquired, files, timestamp,
                   requests, resolved, yielded>>

NextClock ==
    \/ Next
    \/ Tick

SpecClock == Init /\ [][NextClock]_vars

\* ------------------------------------------- the aggregation of any batch
\* What session.get does in the batches explored: successes with latencies
\* far apart and (100005 us is 100.00 or 100.01 ms) one hundredth of a
\* millisecond apart, statuses at the upper limit of line 57, and a failure.
AggTransport ==
    { Response(200, el, Some(512)) : el \in {100000, 100005, 110000, 120000} }
    \cup { Response(399, 110000, Some(512)) }
    \cup { Response(400, el, Some(512)) : el \in {100000, 120000} }
    \cup { Raises("timeout") }

AggOutcomes == { measure_once(ev, up).value : ev \in AggTransport, up \in BOOLEAN }

Batches == UNION { [1..n -> AggOutcomes] : n \in 1..MaxBatch }

\* main at line 111, back from measure_multiple with any batch for the one
\* target "x"
InitAgg ==
    /\ stdin = <<"x">>
    /\ results \in Batches
    /\ samples = Len(results)
    /\ concurrency = 1
    /\ pc = "record"
    /\ urls = << <<"x">> >>
    /\ idx = 1
    /\ url = scheme_qualify(<<"x">>)
    /\ futures = <<>>
    /\ finished = {}
    /\ pending = {}
    /\ waiter = <<>>
    /\ agg = None
    /\ detailed_rows = <<>>
    /\ summary_rows = <<>>
    /\ console = <<[line |-> "banner", url |-> <<>>],
                   [line |-> "checking", url |-> url]>>
    /\ session = "open"
    /\ executor = [state |-> "open", max_workers |-> 1]
    /\ acquired = [sessions |-> 1, pools |-> 1]
    /\ files = [detailed |-> None, summary |-> None]
    /\ clock = 0
    /\ timestamp = Some(0)
    /\ requests = Len(results)
    /\ resolved = <<>>
    /\ yielded = <<>>

NextAgg ==
    \/ RecordRows
    \/ Aggregate

SpecAgg == InitAgg /\ [][NextAgg]_vars

\* ------------------------------------------------ the run on any input line
AnyLine == UNION { [1..n -> Tokens] : n \in 0..MaxInputLen }

\* main at line 74 with any line typed, one sample per target, one worker
InitInput ==
    /\ stdin \in AnyLine
    /\ samples = 1
    /\ concurrency = 1
    /\ pc = "input"
    /\ urls = <<>>
    /\ idx = 0
    /\ url = <<>>
    /\ futures = <<>>
    /\ finished = {}
    /\ pending = {}
    /\ waiter = <<>>
    /\ results = <<>>
    /\ agg = None
    /\ detailed_rows = <<>>
    /\ summary_rows = <<>>
    /\ console = <<>>
    /\ session = "none"
    /\ executor = [state |-> "none", max_workers |-> 0]
    /\ acquired = [sessions |-> 0, pools |-> 0]
    /\ files = [detailed |-> None, summary |-> None]
    /\ clock = 0
    /\ timestamp = None
    /\ requests = 0
    /\ resolved = <<>>
    /\ yielded = <<>>

SpecInput == InitInput /\ [][Next]_vars

\* ================================================================== claims
\* The bijections of 1..n, for every n a batch can have
MaxPerm == IF MaxBatch > MaxSamples THEN MaxBatch ELSE MaxSamples
AllPerms ==
    [n \in 0..MaxPerm |->
        { p \in [1..n -> 1..n] : \A i, j \in 1..n : p[i] = p[j] => i = j }]
Perms(n) == AllPerms[n]

failed(r) == r.error # None

\* C1: for every sample count and every set of failing probes,
\* measure_multiple returns exactly one outcome per submitted probe: when its
\* loop is exhausted the batch is a rearrangement of the outcomes of the
\* samples futures, what it returns has samples members, and no failure ends
\* the collection early.
C1_BatchHasEveryOutcome ==
    /\ pc # "crashed"
    /\ pc \in {"record", "aggregate"} => Len(results) = samples
    /\ pc = "collect" => Len(futures) = samples /\ Len(results) <= samples
    /\ (pc = "collect" /\ exhausted) =>
          \E p \in Perms(samples) :
              \A k \in 1..samples :
                  /\ futures[p[k]].state = "finished"
                  /\ results[k] = Get(futures[p[k]].result).value

\* C1 witness: a batch of two or more is returned in which one probe failed
\* and another got a response
C1_Witness ==
    /\ pc = "record"
    /\ samples >= 2
    /\ \E j, k \in 1..Len(results) : failed(results[j]) /\ ~failed(results[k])

\* C2: the probes executing are never more than the concurrency limit; the
\* run constructs one pool, of that size, and every probe is run by it.
C2_AtMostCExecuting ==
    /\ Cardinality(Running) <= concurrency
    /\ acquired.pools <= 1
    /\ executor.state # "none" => executor.max_workers = concurrency
    /\ futures # <<>> => acquired.pools = 1 /\ executor.state = "open"

\* C2 witness: on the second target the limit binds: every worker is busy and
\* a probe waits in the queue
C2_Witness ==
    /\ idx = 2
    /\ Cardinality(Running) = concurrency
    /\ \E k \in 1..Len(futures) : futures[k].state = "pending"

\* The summary of a batch of n probes that all failed
all_failed_summary(n) ==
    [count |-> n, success_count |-> 0, failure_count |-> n,
     min_ms |-> None, avg_ms |-> None, max_ms |-> None, stdev_ms |-> 0]

\* The detailed rows of the t-th target, once recorded
rows_of(t) == SubSeq(detailed_rows, (t - 1) * samples + 1, t * samples)

\* What the workers and the collecting loop can do while a batch is collected
CollectStep ==
    \/ \E k \in 1..Len(futures) : Start(k) \/ Resolve(k) \/ YieldFinished(k)
    \/ YieldCompleted

\* C3: a failed request never leaves measure_once as an exception: the run
\* never crashes; while a batch is incomplete a probe can still start or
\* resolve or an outcome can still be collected, and while targets remain the
\* next one can be taken; the run ends with one summary row per target
\* written; and the summary of a target whose samples probes all failed is
\* count = samples, success_count = 0, failure_count = samples, no
\* min/avg/max and stdev 0.
C3_FailuresAreData ==
    /\ pc # "crashed"
    /\ (pc = "collect" /\ ~exhausted) => ENABLED CollectStep
    /\ (pc = "loop" /\ idx < Len(urls)) => ENABLED BeginTarget
    /\ pc = "done" =>
          /\ Len(summary_rows) = Len(urls)
          /\ files.summary = Some(summary_rows)
    /\ \A k \in 1..Len(futures) :
          futures[k].state = "finished" => ~Get(futures[k].result).raised
    /\ \A t \in 1..Len(summary_rows) :
          (\A k \in 1..samples : rows_of(t)[k].status = None /\ rows_of(t)[k].latency_ms = None)
             => summary_rows[t] = summary_row(summary_rows[t].url, all_failed_summary(samples))

\* C3 witness: a run of two targets has ended; both probes of the first target
\* failed and the second target was still probed and got a response
C3_Witness ==
    /\ pc = "done"
    /\ samples = 2
    /\ Len(summary_rows) = 2
    /\ summary_rows[1].failure_count = 2
    /\ summary_rows[2].success_count >= 1

\* The four fields of an outcome agree with what session.get did
outcome_matches(ev, o) ==
    /\ (o.latency_ms # None) # (o.error # None)
    /\ ~ev.raises => o.status # None /\ o.latency_ms # None /\ o.size # None
    /\ ev.raises => o.status = None /\ o.latency_ms = None /\ o.size = None
    /\ (o.error # None) <=> ev.raises

\* C4: every outcome of measure_once has exactly one of latency and error;
\* status, latency and size are all present when a response was received,
\* whatever its status, and all absent otherwise; the error is present exactly
\* when no response was received.
C4_OutcomeShape ==
    /\ \A k \in 1..Len(futures) :
          futures[k].state = "finished" =>
              /\ ~Get(futures[k].result).raised
              /\ outcome_matches(Get(futures[k].ev), Get(futures[k].result).value)
    /\ \A k \in 1..Len(results) :
          /\ (results[k].latency_ms # None) # (results[k].error # None)
          /\ (results[k].status # None) <=> (results[k].latency_ms # None)
          /\ (results[k].size # None) <=> (results[k].latency_ms # None)

\* C4 witness: of two resolved probes one got a 404 and the other raised
C4_Witness ==
    \E j, k \in 1..Len(futures) :
        /\ futures[j].state = "finished" /\ futures[k].state = "finished"
        /\ ~Get(futures[j].ev).raises /\ Get(futures[j].ev).status = 404
        /\ Get(futures[k].ev).raises

\* The outcomes of a batch that carry a status, a latency, an error
with_status(b) == {k \in 1..Len(b) : b[k].status # None}
with_latency(b) == {k \in 1..Len(b) : b[k].latency_ms # None}
with_error(b) == {k \in 1..Len(b) : b[k].error # None}
in_range(b) == {k \in with_status(b) : 200 <= Get(b[k].status) /\ Get(b[k].status) < 400}

\* main has just aggregated results into agg (line 121)
aggregated == pc = "loop" /\ agg # None /\ results # <<>>

\* C5: for every batch the Sampler produced, success_count + the number of
\* outcomes with a received status outside [200, 400) + failure_count = count,
\* and count is the configured number of samples.
C5_CountsAddUp ==
    aggregated =>
        /\ Get(agg).success_count
              + Cardinality(with_status(results) \ in_range(results))
              + Get(agg).failure_count = Get(agg).count
        /\ Get(agg).count = samples

\* C5 witness: a batch of two with a 404 and a failed probe has been aggregated
C5_Witness ==
    /\ aggregated
    /\ samples = 2
    /\ Cardinality(with_status(results) \ in_range(results)) = 1
    /\ Get(agg).failure_count = 1

\* C6: success_count is the number of outcomes with 200 <= status < 400 and
\* failure_count the number of outcomes with an error; an outcome with a
\* received status outside the range is in neither count, and its latency is
\* in the latency set: min_ms and max_ms range over every outcome with a
\* status.
C6_SuccessAndFailureCounts ==
    aggregated =>
        /\ Get(agg).success_count = Cardinality(in_range(results))
        /\ Get(agg).failure_count = Cardinality(with_error(results))
        /\ (with_status(results) \ in_range(results)) \cap with_error(results) = {}
        /\ \A k \in with_status(results) :
              /\ Get(agg).min_ms # None /\ Get(agg).max_ms # None
              /\ Get(Get(agg).min_ms) <= Get(results[k].latency_ms)
              /\ Get(results[k].latency_ms) <= Get(Get(agg).max_ms)

\* C6 witness: a batch with a 399, a 400 that is the slowest, and a failure
C6_Witness ==
    /\ aggregated
    /\ Get(agg).success_count = 1
    /\ Get(agg).failure_count = 1
    /\ \E j, k \in with_status(results) :
          /\ Get(results[j].status) = 399
          /\ Get(results[k].status) = 400
          /\ Get(results[j].latency_ms) < Get(results[k].latency_ms)
          /\ Get(agg).max_ms = results[k].latency_ms

\* C7: min_ms, avg_ms and max_ms are all present or all absent, absent iff no
\* outcome has a latency; when present min_ms <= avg_ms <= max_ms, and min_ms
\* and max_ms are the smallest and the largest latency of the batch.
C7_MinAvgMax ==
    aggregated =>
        LET a == Get(agg)
            L == with_latency(results)
        IN  /\ (a.min_ms = None) <=> (L = {})
            /\ (a.avg_ms = None) <=> (L = {})
            /\ (a.max_ms = None) <=> (L = {})
            /\ L # {} =>
                  /\ Get(a.min_ms) <= Get(a.avg_ms)
                  /\ Get(a.avg_ms) <= Get(a.max_ms)
                  /\ \E k \in L : results[k].latency_ms = a.min_ms
                  /\ \E k \in L : results[k].latency_ms = a.max_ms
                  /\ \A k \in L : /\ Get(a.min_ms) <= Get(results[k].latency_ms)
                                  /\ Get(results[k].latency_ms) <= Get(a.max_ms)

\* C7 witness: the smallest latency is not the first of the batch and the
\* average lies strictly between the smallest and the largest
C7_Witness ==
    /\ aggregated
    /\ Get(agg).min_ms # None
    /\ results[1].latency_ms # None
    /\ Get(Get(agg).min_ms) < Get(results[1].latency_ms)
    /\ Get(Get(agg).min_ms) < Get(Get(agg).avg_ms)
    /\ Get(Get(agg).avg_ms) < Get(Get(agg).max_ms)

\* The latencies of a batch, in its order
latencies_of(b) ==
    LET sel == SelectSeq(b, LAMBDA r : r.latency_ms # None)
    IN  [k \in 1..Len(sel) |-> Get(sel[k].latency_ms)]

RECURSIVE total(_)
total(xs) == IF xs = <<>> THEN 0 ELSE Head(xs) + total(Tail(xs))

\* r is the sample standard deviation of xs (two or more members) rounded to
\* a whole number: with T the sum of xs and n their number, the squared
\* deviations from the mean add up to SSD / n^2, SSD the sum of
\* (n * x - T)^2, the sample variance is SSD / (n^2 * (n - 1)), and r is
\* within one half of its square root.
is_sample_stdev(r, xs) ==
    LET n == Len(xs)
        T == total(xs)
        SSD == total([k \in 1..n |-> (n * xs[k] - T) * (n * xs[k] - T)])
        den == n * n * (n - 1)
    IN  /\ r >= 0
        /\ 4 * SSD <= (2 * r + 1) * (2 * r + 1) * den
        /\ r > 0 => (2 * r - 1) * (2 * r - 1) * den <= 4 * SSD

ok200(latency) ==
    [status |-> Some(200), latency_ms |-> Some(latency), size |-> Some(512),
     error |-> None]

\* End-to-end scenario 1: latencies 100.0, 120.0, 110.0 ms, status 200
scenario1 == <<ok200(10000), ok200(12000), ok200(11000)>>

\* C8: stdev_ms is 0 when the batch has no or one latency (so whenever
\* samples is 1); with two or more it is the sample standard deviation,
\* denominator n - 1, rounded to two decimals; and latencies 100, 120, 110
\* with status 200 give count 3, 3 successes, 0 failures, min 100, avg 110,
\* max 120, stdev 10.
C8_SampleStdev ==
    aggregated =>
        LET a == Get(agg)
            xs == latencies_of(results)
        IN  /\ Len(xs) <= 1 => a.stdev_ms = 0
            /\ samples = 1 => a.stdev_ms = 0
            /\ Len(xs) >= 2 => is_sample_stdev(a.stdev_ms, xs)
            /\ results = scenario1 =>
                  a = [count |-> 3, success_count |-> 3, failure_count |-> 0,
                       min_ms |-> Some(10000), avg_ms |-> Some(11000),
                       max_ms |-> Some(12000), stdev_ms |-> 1000]

\* C8 witness: scenario 1 has been aggregated
C8_Witness ==
    /\ aggregated
    /\ results = scenario1
    /\ Get(agg).stdev_ms = 1000

permute(b, p) == [k \in 1..Len(b) |-> b[p[k]]]

\* C9: aggregate_results gives the same summary, field by field, for every
\* rearrangement of a batch, and aggregating changes neither the batch nor
\* anything but agg, the summary rows and the console, to which main adds the
\* summary.
C9_OrderIndependentAndPure ==
    /\ [](pc = "aggregate" =>
             \A fp \in FloatTies :
                 LET a == aggregate_results(results, fp)
                 IN  \A p \in Perms(Len(results)) :
                         aggregate_results(permute(results, p), fp) = a)
    /\ [][pc = "aggregate" =>
             /\ results' = results
             /\ detailed_rows' = detailed_rows
             /\ summary_rows' = Append(summary_rows, summary_row(url, Get(agg')))
             /\ \E fp \in FloatTies : Get(agg') = aggregate_results(results', fp)
             /\ UNCHANGED <<stdin, samples, concurrency, urls, idx, url, futures,
                            finished, pending, waiter, session, executor,
                            acquired, files>>]_vars

\* C9 witness: a batch whose three outcomes all differ, the largest latency
\* not last, has been aggregated
C9_Witness ==
    /\ aggregated
    /\ Len(results) = 3
    /\ results[1] # results[2] /\ results[2] # results[3] /\ results[1] # results[3]
    /\ results[3].latency_ms # None
    /\ Get(results[3].latency_ms) < Get(Get(agg).max_ms)

qualified(u) == u # <<>> /\ (startswith(u, HTTP) \/ startswith(u, HTTPS))

\* t is s without the whitespace at its two ends
is_trimmed_of(t, s) ==
    /\ t # <<>> => t[1] # WS /\ t[Len(t)] # WS
    /\ \E i \in 1..(Len(s) + 1) :
          /\ SubSeq(s, i, i + Len(t) - 1) = t
          /\ \A k \in 1..Len(s) : (k < i \/ k >= i + Len(t)) => s[k] = WS

RECURSIVE join(_)
join(pieces) ==
    IF Len(pieces) = 1 THEN Head(pieces)
    ELSE Head(pieces) \o COMMA \o join(Tail(pieces))

\* The entries typed: the pieces of the line between its commas
entries == split(strip(stdin), <<>>)

\* The entries that are not empty once trimmed
kept_entries == SelectSeq(entries, LAMBDA e : \E k \in 1..Len(e) : e[k] # WS)

\* C10: the targets are the entries of the line, trimmed, without the empty
\* ones; a target gets "https://" in front exactly when it starts with
\* neither "http://" nor "https://"; normalizing a normalized target changes
\* nothing; and every target probed or written to the console or to a row is
\* non-empty and starts with "http://" or "https://".
C10_Normalization ==
    /\ pc \notin {"input", "exited"} =>
          /\ join(entries) = strip(stdin)
          /\ \A j \in 1..Len(entries) : \A k \in 1..Len(entries[j]) : <<entries[j][k]>> # COMMA
          /\ Len(urls) = Len(kept_entries)
          /\ \A j \in 1..Len(urls) :
                /\ urls[j] # <<>>
                /\ is_trimmed_of(urls[j], kept_entries[j])
    /\ idx >= 1 =>
          /\ qualified(url)
          /\ (startswith(urls[idx], HTTP) \/ startswith(urls[idx], HTTPS)) => url = urls[idx]
          /\ ~(startswith(urls[idx], HTTP) \/ startswith(urls[idx], HTTPS))
                => url = HTTPS \o urls[idx]
          /\ parse_urls(strip(url)) = <<url>>
          /\ scheme_qualify(url) = url
    /\ futures # <<>> => qualified(url)
    /\ \A k \in 1..Len(detailed_rows) : qualified(detailed_rows[k].url)
    /\ \A k \in 1..Len(summary_rows) : qualified(summary_rows[k].url)
    /\ \A k \in 1..Len(console) :
          console[k].line \in {"checking", "result", "no_successful_requests"}
             => qualified(console[k].url)
    /\ files.detailed # None =>
          \A k \in 1..Len(Get(files.detailed)) : qualified(Get(files.detailed)[k].url)
    /\ files.summary # None =>
          \A k \in 1..Len(Get(files.summary)) : qualified(Get(files.summary)[k].url)

\* C10 witness: the line " x," has been run to the end: the entry was
\* trimmed, the empty entry dropped and "https://x" probed and written
C10_Witness ==
    /\ pc = "done"
    /\ stdin = <<" ", "x", ",">>
    /\ urls = << <<"x">> >>
    /\ Len(Get(files.detailed)) = 1
    /\ Get(files.summary)[1].url = <<"http", "s", "://", "x">>

\* C11: when no target is left once the entries are trimmed and the empty
\* ones discarded, the run reports it and ends before any probing: it
\* constructs no session and no pool, issues no probe and writes no table.
C11_EmptyTargetListEndsRun ==
    (pc # "input" /\ parse_urls(strip(stdin)) = <<>>) =>
        /\ pc \in {"done", "exited", "crashed"} =>
              pc = "exited" /\ console[Len(console)].line = "no_urls"
        /\ session = "none"
        /\ executor.state = "none"
        /\ acquired = [sessions |-> 0, pools |-> 0]
        /\ futures = <<>>
        /\ requests = 0
        /\ files = [detailed |-> None, summary |-> None]

\* The rows of a table that belong to the t-th target, S rows per target
group(rows, t) == SubSeq(rows, (t - 1) * samples + 1, t * samples)

\* A table of the end of a run: S detailed rows per target, where every
\* sample_index of 1..S occurs once, and one summary row per target
tables_complete(detailed, summary) ==
    /\ Len(detailed) = Len(urls) * samples
    /\ Len(summary) = Len(urls)
    /\ \A t \in 1..Len(urls) : \A i \in 1..samples :
          Cardinality({k \in 1..samples : group(detailed, t)[k].sample_index = i}) = 1

\* C12: when the run has ended, the detailed table holds N*S rows, with each
\* sample_index of 1..S once per target, and the summary table holds N rows;
\* every row of both tables carries the timestamp of the start of the run,
\* which is taken before the first probe is submitted, however much time
\* passes during the run.
C12_RowCountsAndTimestamp ==
    /\ pc = "done" =>
          /\ tables_complete(detailed_rows, summary_rows)
          /\ files.detailed = Some(detailed_rows)
          /\ files.summary = Some(summary_rows)
    /\ timestamp = None => futures = <<>> /\ requests = 0 /\ pc \in {"input", "exited"}
    /\ timestamp # None => Get(timestamp) <= clock
    /\ \A k \in 1..Len(detailed_rows) : detailed_rows[k].checked_at = Get(timestamp)
    /\ \A k \in 1..Len(summary_rows) : summary_rows[k].checked_at = Get(timestamp)

\* C12 witness: a run of two targets and two samples has ended, and the clock
\* moved on after the timestamp was taken
C12_Witness ==
    /\ pc = "done"
    /\ Len(urls) = 2
    /\ samples = 2
    /\ Len(Get(files.detailed)) = 4
    /\ Len(Get(files.summary)) = 2
    /\ clock > Get(timestamp)

\* The target a detailed row at position k belongs to when every target has
\* S rows
target_of(k) == ((k - 1) \div samples) + 1

\* The rows are in the order of the targets supplied: the t-th summary row is
\* of the t-th target, and the detailed rows are S of the first target, then
\* S of the second, and so on
in_target_order(detailed, summary) ==
    /\ Len(summary) <= Len(urls)
    /\ \A t \in 1..Len(summary) : summary[t].url = scheme_qualify(urls[t])
    /\ Len(detailed) <= Len(urls) * samples
    /\ \A k \in 1..Len(detailed) : detailed[k].url = scheme_qualify(urls[target_of(k)])

\* C13: the order of the targets supplied is kept to the end: the summary
\* rows are in that order, the detailed rows of a target are one contiguous
\* group, and the groups are in that order, whatever order the probes end in.
C13_TargetOrderKept ==
    /\ in_target_order(detailed_rows, summary_rows)
    /\ Len(detailed_rows) \in {Len(summary_rows) * samples, (Len(summary_rows) + 1) * samples}
    /\ files.detailed # None => in_target_order(Get(files.detailed), summary_rows)
    /\ files.summary # None => in_target_order(detailed_rows, Get(files.summary))

\* C13 witness: two different targets of two samples each have been written,
\* the second target's batch being a response and then a failure
C13_Witness ==
    /\ pc = "done"
    /\ Len(urls) = 2
    /\ samples = 2
    /\ scheme_qualify(urls[1]) # scheme_qualify(urls[2])
    /\ Len(Get(files.detailed)) = 4
    /\ Get(files.detailed)[3].status # None
    /\ Get(files.detailed)[4].status = None

\* The probes of the pool that have not resolved: queued or executing
unresolved == {k \in 1..Len(futures) : futures[k].state # "finished"}

\* Every target has been sampled and aggregated
all_targets_done ==
    /\ idx = Len(urls)
    /\ pc \notin {"submit", "as_completed", "collect", "record", "aggregate"}
    /\ unresolved = {}
    /\ Len(detailed_rows) = Len(urls) * samples
    /\ Len(summary_rows) = Len(urls)

\* C14: no table is written before every target has been sampled and
\* aggregated; a run that probed and has ended has written both tables; a
\* table is written once, whole, with the rows accumulated; and the rows do
\* not change after a table is written.
C14_TablesWrittenOnceAtTheEnd ==
    /\ [](/\ (files.detailed # None \/ files.summary # None) => all_targets_done
          /\ files.summary # None => files.detailed # None
          /\ (requests > 0 /\ pc \in {"done", "exited", "crashed"}) =>
                /\ pc = "done"
                /\ files.detailed = Some(detailed_rows)
                /\ files.summary = Some(summary_rows))
    /\ [][/\ files.detailed # None =>
                /\ files'.detailed = files.detailed
                /\ detailed_rows' = detailed_rows
                /\ summary_rows' = summary_rows
          /\ files.summary # None =>
                /\ files' = files
                /\ detailed_rows' = detailed_rows
                /\ summary_rows' = summary_rows
          /\ files'.detailed # files.detailed => files'.detailed = Some(detailed_rows)
          /\ files'.summary # files.summary => files'.summary = Some(summary_rows)]_vars

\* C14 witness: a run of two targets that probed has ended with both tables
\* written
C14_Witness ==
    /\ pc = "done"
    /\ requests > 0
    /\ Len(urls) = 2
    /\ files.detailed = Some(detailed_rows)
    /\ files.summary = Some(summary_rows)
    /\ Len(summary_rows) = 2

\* C15: targets never overlap.  Every probe queued or executing is of the
\* target being sampled, and the targets before it have all been aggregated;
\* the row lists change only in main's own steps after measure_multiple has
\* returned, and only while no probe is queued or executing.
C15_TargetsNeverOverlap ==
    /\ [](/\ \A k \in unresolved :
                /\ futures[k].url = url
                /\ pc \in {"submit", "as_completed", "collect"}
          /\ futures # <<>> =>
                /\ idx >= 1
                /\ Len(summary_rows) = idx - 1
                /\ Len(detailed_rows) = (idx - 1) * samples
          /\ pc = "loop" => unresolved = {} /\ Len(summary_rows) = idx)
    /\ [][(detailed_rows' # detailed_rows \/ summary_rows' # summary_rows) =>
              /\ pc \in {"record", "aggregate"}
              /\ unresolved = {}
              /\ futures' = futures]_vars

\* C15 witness: the second target is being sampled with one probe executing
\* and one queued, the first target aggregated
C15_Witness ==
    /\ idx = 2
    /\ Len(summary_rows) = 1
    /\ \E j, k \in 1..Len(futures) :
          futures[j].state = "running" /\ futures[k].state = "pending"

\* The detailed row built from the k-th outcome of the batch just recorded
row_of(k) == detailed_rows[(idx - 1) * samples + k]

\* C16: a detailed row keeps what its outcome has and lacks: the status,
\* latency and response-byte cells are blank exactly when the outcome has no
\* such value, the error cell is filled exactly when the outcome has an
\* error, and so status and latency are blank exactly in the rows of failed
\* requests, which have an error text; a value of 0 is a value.
C16_RowsKeepPresence ==
    pc = "aggregate" =>
        \A k \in 1..Len(results) :
            /\ row_of(k).status = None <=> results[k].status = None
            /\ row_of(k).latency_ms = None <=> results[k].latency_ms = None
            /\ row_of(k).response_bytes = None <=> results[k].size = None
            /\ row_of(k).error # None <=> results[k].error # None
            /\ (row_of(k).status = None /\ row_of(k).latency_ms = None)
                  <=> (results[k].error # None /\ row_of(k).error # None)

\* How many targets' batches measure_multiple has returned
batches_returned == IF pc \in {"submit", "as_completed", "collect"} THEN idx - 1 ELSE idx

\* C17: a probe issues one request, whether it succeeds or fails, and no
\* batch is submitted again: the requests issued are one per resolved probe,
\* a batch never has more than S probes, and a run of N targets that has
\* ended has issued N*S requests, however many of them failed.
C17_OneRequestPerProbe ==
    /\ requests = batches_returned * samples
                     + Cardinality({k \in 1..Len(futures) : futures[k].state = "finished"})
    /\ Len(futures) <= samples
    /\ pc \in {"shutdown", "close", "write_detailed", "write_summary", "done"} =>
          requests = Len(urls) * samples

\* C17 witness: a run of two targets and two samples has ended after four
\* requests, of which some failed and some did not
C17_Witness ==
    /\ pc = "done"
    /\ Len(urls) = 2
    /\ samples = 2
    /\ requests = 4
    /\ \E j, k \in 1..Len(detailed_rows) :
          detailed_rows[j].error # None /\ detailed_rows[k].error = None

\* The batch so far holds the outcomes of the probes taken, in the order taken
batch_is_of_yielded ==
    /\ Len(results) = Len(yielded)
    /\ \A i \in 1..Len(yielded) : results[i] = Get(futures[yielded[i]].result).value

\* The position at which probe k was taken into the batch, 0 if it has not been
position(k) ==
    IF \E i \in 1..Len(yielded) : yielded[i] = k
    THEN CHOOSE i \in 1..Len(yielded) : yielded[i] = k
    ELSE 0

\* C18 as claimed: the batch is in the order the probes resolved, also for
\* probes resolved before as_completed started: a probe in the batch has
\* every probe that resolved before it in front of it.
C18_BatchInCompletionOrder ==
    pc = "collect" =>
        /\ batch_is_of_yielded
        /\ \A m, n \in 1..Len(resolved) :
              (m < n /\ position(resolved[n].probe) # 0) =>
                  /\ position(resolved[m].probe) # 0
                  /\ position(resolved[m].probe) < position(resolved[n].probe)

\* C18 amended: a probe that resolved after as_completed started has every
\* probe that resolved before it in front of it in the batch; two probes that
\* both resolved before as_completed started may be in either order.
C18_LateProbesInCompletionOrder ==
    pc = "collect" =>
        /\ batch_is_of_yielded
        /\ \A m, n \in 1..Len(resolved) :
              (m < n /\ resolved[n].collecting /\ position(resolved[n].probe) # 0) =>
                  /\ position(resolved[m].probe) # 0
                  /\ position(resolved[m].probe) < position(resolved[n].probe)

\* C18 witness: the probe submitted second resolved first, both after
\* as_completed started, and the batch has them in that order
C18_Witness ==
    /\ pc = "collect"
    /\ Len(resolved) = 2
    /\ resolved[1].probe = 2 /\ resolved[1].collecting
    /\ resolved[2].probe = 1 /\ resolved[2].collecting
    /\ yielded = <<2, 1>>
    /\ Len(results) = 2

\* The run has ended with both tables written and both resources released
ended_written ==
    /\ pc = "done"
    /\ files.detailed = Some(detailed_rows)
    /\ files.summary = Some(summary_rows)
    /\ Len(summary_rows) = Len(urls)
    /\ executor.state = "shutdown"
    /\ session = "closed"

\* The console so far: the banner, then for every target its progress line
\* and, once its summary row exists, its result line
console_in_order ==
    /\ Len(summary_rows) \in {idx - 1, idx}
    /\ Len(console) = 1 + idx + Len(summary_rows) + (IF pc = "done" THEN 1 ELSE 0)
    /\ \A t \in 1..idx :
          console[2 * t] = [line |-> "checking", url |-> scheme_qualify(urls[t])]
    /\ \A t \in 1..Len(summary_rows) :
          /\ console[2 * t + 1].url = summary_rows[t].url
          /\ console[2 * t + 1].line \in {"result", "no_successful_requests"}
          /\ Len(detailed_rows) >= t * samples
          /\ console[2 * t + 1].line = "no_successful_requests"
                <=> \A k \in 1..samples : group(detailed_rows, t)[k].latency_ms = None

\* C19: with a target list that is not empty, the main thread and the
\* workers scheduled fairly and every started request ending, every
\* submitted probe starts and resolves, every target gets its progress line,
\* its batch, its summary row and its result line in that order, and the run
\* reaches its end with both tables written; the result line says "no
\* successful requests" exactly when no outcome of the target has a latency.
C19_RunEnds ==
    /\ (parse_urls(strip(stdin)) # <<>>) => <>ended_written
    /\ \A k \in 1..MaxSamples :
          (k \in 1..Len(futures) /\ futures[k].state = "pending")
             ~> (k \in 1..Len(futures) /\ futures[k].state = "finished")
    /\ [](pc \notin {"input", "exited"} => console_in_order)
    /\ [](aggregated =>
             (console[Len(console)].line = "no_successful_requests"
                 <=> with_latency(results) = {}))
    /\ [](pc = "record" => Len(results) = samples /\ Len(console) = 2 * idx)

\* C19 witness: a run with more samples than workers has ended; one target
\* had no successful request and the other had
C19_Witness ==
    /\ ended_written
    /\ samples > concurrency
    /\ Len(urls) = 2
    /\ console[3].line = "no_successful_requests"
    /\ console[5].line = "result"

\* C20: a run constructs at most one session and one pool, and every probe
\* is run by that pool with that session open; the pool is shut down when no
\* probe is queued or executing, the session is closed after the pool is shut
\* down, the tables are written after both, and a run that constructed them
\* and has ended has released both.
C20_OnePoolOneSessionReleasedInOrder ==
    /\ acquired.sessions <= 1 /\ acquired.pools <= 1
    /\ acquired.sessions = (IF session = "none" THEN 0 ELSE 1)
    /\ acquired.pools = (IF executor.state = "none" THEN 0 ELSE 1)
    /\ futures # <<>> =>
          /\ acquired = [sessions |-> 1, pools |-> 1]
          /\ session = "open"
          /\ executor.state = "open"
    /\ requests > 0 => acquired = [sessions |-> 1, pools |-> 1]
    /\ executor.state = "shutdown" => unresolved = {} /\ futures = <<>>
    /\ executor.state # "none" => session # "none"
    /\ session = "closed" => executor.state = "shutdown"
    /\ (files.detailed # None \/ files.summary # None) =>
          session = "closed" /\ executor.state = "shutdown"
    /\ (pc \in {"done", "exited", "crashed"} /\ acquired.sessions + acquired.pools > 0) =>
          session = "closed" /\ executor.state = "shutdown"

\* C20 witness: a run of two targets has ended: one session and one pool
\* served its four probes, and both are released
C20_Witness ==
    /\ pc = "done"
    /\ acquired = [sessions |-> 1, pools |-> 1]
    /\ requests = 4
    /\ session = "closed"
    /\ executor.state = "shutdown"
    /\ files.summary # None

====
